---------------------------- MODULE Spec2Model ----------------------------
(***************************************************************************)
(* A model of src/core-js-dates-tasks.js: the date utilities getNextFriday,*)
(* getCountDaysInMonth, getCountDaysOnPeriod, isDateInPeriod, formatDate,  *)
(* getWeekNumberByDate, getNextFridayThe13th, getWorkSchedule, isLeapYear. *)
(*                                                                         *)
(* Representation.  A JavaScript time value (milliseconds since the epoch) *)
(* does not fit TLC's 32-bit integers, so a time value is the pair         *)
(* <<day, ms>> standing for day * 86400000 + ms with 0 <= ms < 86400000.   *)
(* All arithmetic on time values (AddMs, Less, Diff) is exact on that      *)
(* pair.  A Date object is its time value.  Local time is UTC plus the     *)
(* offset tz, which is fixed during a behaviour (a zone without daylight   *)
(* saving transitions).  A JavaScript number that need not be an integer   *)
(* (the quotient of getCountDaysOnPeriod) is the pair [int, num] standing  *)
(* for int + num / 86400000.                                               *)
(***************************************************************************)
EXTENDS Integers, Sequences, FiniteSets, TLC

VARIABLES
  pc,          \* position of the call: "ready", "loop", "done"
  tz,          \* the host's offset of local time from UTC, in ms
  args,        \* the arguments of the call
  ret,         \* the value returned
  date,        \* the Date object passed to getNextFriday (mutable)
  calls,       \* number of getNextFriday calls made on the object `date`
  index,       \* getWorkSchedule: the loop's time value
  countDays,   \* getWorkSchedule: days emitted in the current cycle
  schedule,    \* getWorkSchedule: the array built so far
  cycleStart,  \* history: index when the current work/off cycle began
  lastBranch   \* history: branch the last loop iteration took

vars == <<pc, tz, args, ret, date, calls, index, countDays, schedule,
          cycleStart, lastBranch>>

None == "none"

-----------------------------------------------------------------------------
(* Time values and the built-in Date.                                      *)

timestampOneday == 86400000

MsPerSecond == 1000

MsPerMinute == 60000

MsPerHour == 3600000

\* t + n ms, for a time value t and an integer n (of either sign)
AddMs(t, n) ==
  LET s == t[2] + n
  IN  <<t[1] + (s \div timestampOneday), s % timestampOneday>>

\* a < b and a <= b on time values
Less(a, b) == a[1] < b[1] \/ (a[1] = b[1] /\ a[2] < b[2])

LessEq(a, b) == a = b \/ Less(a, b)

\* b - a in ms (the operands are at most a few days apart)
Diff(a, b) == (b[1] - a[1]) * timestampOneday + (b[2] - a[2])

\* Day number (days since 1970-01-01) of the civil date y-m-d, m in 1..12
DaysFromCivil(y, m, d) ==
  LET yy  == IF m <= 2 THEN y - 1 ELSE y
      era == yy \div 400
      yoe == yy - era * 400
      mp  == (m + 9) % 12
      doy == (153 * mp + 2) \div 5 + d - 1
      doe == yoe * 365 + (yoe \div 4) - (yoe \div 100) + doy
  IN  era * 146097 + doe - 719468

\* The civil date [year, month (1..12), day] of a day number
CivilFromDays(z) ==
  LET zz  == z + 719468
      era == zz \div 146097
      doe == zz - era * 146097
      yoe == (doe - (doe \div 1460) + (doe \div 36524) - (doe \div 146096)) \div 365
      doy == doe - (365 * yoe + (yoe \div 4) - (yoe \div 100))
      mp  == (5 * doy + 2) \div 153
      d   == doy - ((153 * mp + 2) \div 5) + 1
      m   == IF mp < 10 THEN mp + 3 ELSE mp - 9
      y   == yoe + era * 400
  IN  [year |-> IF m <= 2 THEN y + 1 ELSE y, month |-> m, day |-> d]

\* Day of the week of a day number, 0 = Sunday (1970-01-01 was a Thursday)
WeekDay(z) == (z + 4) % 7

\* The local wall clock of a time value, itself as a time value
Local(t) == AddMs(t, tz)

\* Date.prototype getters
getUTCDate(t) == CivilFromDays(t[1]).day

getUTCMonth(t) == CivilFromDays(t[1]).month - 1

getUTCFullYear(t) == CivilFromDays(t[1]).year

getUTCHours(t) == t[2] \div MsPerHour

getUTCMinutes(t) == (t[2] % MsPerHour) \div MsPerMinute

getUTCSeconds(t) == (t[2] % MsPerMinute) \div MsPerSecond

getFullYear(t) == CivilFromDays(Local(t)[1]).year

getMonth(t) == CivilFromDays(Local(t)[1]).month - 1

getDate(t) == CivilFromDays(Local(t)[1]).day

getDay(t) == WeekDay(Local(t)[1])

\* new Date(year, monthIndex, day): local midnight; monthIndex and day may
\* lie outside their ranges and carry over
NewDate(year, monthIndex, day) ==
  LET y == year + (monthIndex \div 12)
      m == (monthIndex % 12) + 1
  IN  AddMs(<<DaysFromCivil(y, m, 1) + day - 1, 0>>, 0 - tz)

\* date.setUTCDate(n): the UTC day of the month becomes n (carrying over
\* into the next months), the UTC time of day is kept
setUTCDate(t, n) ==
  LET c == CivilFromDays(t[1])
  IN  <<DaysFromCivil(c.year, c.month, 1) + n - 1, t[2]>>

\* Date.parse(dateObject): the Date is converted to its string, which has
\* no milliseconds, and parsed back
DateParse(t) == <<t[1], (t[2] \div MsPerSecond) * MsPerSecond>>

-----------------------------------------------------------------------------
(* getNextFriday, lines 92-122                                             *)

\* a variant whose Friday case stays on the same day
FridayOffset_sameDay(day1) ==
  CASE day1 = 0 -> 5
    [] day1 = 1 -> 4
    [] day1 = 2 -> 3
    [] day1 = 3 -> 2
    [] day1 = 4 -> 1
    [] day1 = 6 -> 6
    [] OTHER -> 0

\* the switch on day1: the days added to the day of the month
FridayOffset(day1) ==
  CASE day1 = 0 -> 5
    [] day1 = 1 -> 4
    [] day1 = 2 -> 3
    [] day1 = 3 -> 2
    [] day1 = 4 -> 1
    [] day1 = 5 -> 7
    [] day1 = 6 -> 6
    [] OTHER -> 0

\* a variant that builds the result without touching its argument
getNextFriday_pure(d) ==
  LET date1 == getUTCDate(d) + FridayOffset(getDay(d))
  IN  [date |-> d, ret |-> setUTCDate(d, date1)]

\* date: the argument object after the call; ret: the Date returned
getNextFriday(d) ==
  LET date1   == getUTCDate(d) + FridayOffset(getDay(d))
      mutated == setUTCDate(d, date1)
  IN  [date |-> mutated, ret |-> mutated]

-----------------------------------------------------------------------------
(* getCountDaysInMonth, lines 135-160, and isLeapYear, lines 548-555       *)

\* a variant with the leap rule cut down to "divisible by 4"
getCountDaysInMonth_everyFourth(month, year) ==
  LET checkYear == (year % 4 = 0)
      byLength  == IF month \in {1, 3, 5, 7, 8, 10, 12} THEN 31 ELSE 30
  IN  IF month = 2 /\ checkYear THEN 29
      ELSE IF month = 2 THEN 28
      ELSE byLength

getCountDaysInMonth(month, year) ==
  LET checkYear == (year % 4 = 0 /\ (year % 100 # 0 \/ year % 400 = 0))
      byLength  == IF month \in {1, 3, 5, 7, 8, 10, 12} THEN 31 ELSE 30
  IN  IF month = 2 /\ checkYear THEN 29
      ELSE IF month = 2 THEN 28
      ELSE byLength

isLeapYear(d) ==
  LET year == getFullYear(d)
  IN  (year % 4 = 0 /\ (year % 100 # 0 \/ year % 400 = 0))

-----------------------------------------------------------------------------
(* getCountDaysOnPeriod, lines 173-183.  The result is the number          *)
(* int + num / 86400000.                                                   *)

getCountDaysOnPeriod(dateStart, dateEnd) ==
  LET result == Diff(dateStart, dateEnd)
  IN  IF result <= timestampOneday
      THEN [int |-> 2, num |-> 0]
      ELSE [int |-> (result \div timestampOneday) + 1,
            num |-> result % timestampOneday]

-----------------------------------------------------------------------------
(* isDateInPeriod, lines 202-216                                           *)

isDateInPeriod(d, period) ==
  LET millisecDate1       == DateParse(period.start)
      millisecDate2       == DateParse(period.end)
      millisecCheckedDate == DateParse(d)
  IN  /\ LessEq(millisecDate1, millisecCheckedDate)
      /\ LessEq(millisecCheckedDate, millisecDate2)

-----------------------------------------------------------------------------
(* formatDate, lines 229-293                                               *)

\* a variant that also maps hour 12 (to 0)
HoursSwitch_mod12(hoursNumber) == hoursNumber % 12

\* the switch on hoursNumber
HoursSwitch(hoursNumber) ==
  IF hoursNumber \in 13..23 THEN hoursNumber - 12 ELSE hoursNumber

formatDate(d) ==
  LET dateNumber    == getUTCDate(d)
      monthNumber   == getUTCMonth(d) + 1
      yearNumber    == getUTCFullYear(d)
      format1       == ToString(monthNumber) \o "/" \o ToString(dateNumber)
                         \o "/" \o ToString(yearNumber)
      hours         == getUTCHours(d)
      minutes       == getUTCMinutes(d)
      seconds       == getUTCSeconds(d)
      minutesNumber == IF minutes < 10 THEN "0" \o ToString(minutes)
                       ELSE ToString(minutes)
      secondsPadded == IF seconds < 10 THEN "0" \o ToString(seconds)
                       ELSE ToString(seconds)
      secondsNumber == IF hours < 12 THEN secondsPadded \o " AM"
                       ELSE secondsPadded \o " PM"
      hoursNumber   == HoursSwitch(hours)
      format2       == ToString(hoursNumber) \o ":" \o minutesNumber
                         \o ":" \o secondsNumber
  IN  format1 \o ", " \o format2

-----------------------------------------------------------------------------
(* getWeekNumberByDate, lines 334-403                                      *)

\* the two switches on the weekday of January 4th: the days taken off it
\* to reach the Monday that starts week 1
WeekOneShift(i) ==
  CASE i = 0 -> 6
    [] i = 2 -> 1
    [] i = 3 -> 2
    [] i = 4 -> 3
    [] i = 5 -> 4
    [] i = 6 -> 5
    [] OTHER -> 0

\* the while loop of lines 391-402
RECURSIVE WeekLoop(_, _, _, _)
WeekLoop(timestampOfFirstDay, timestampOfFirstDayNextYear, timestempOfOurDay, countWeeks) ==
  IF Less(timestampOfFirstDay, timestampOfFirstDayNextYear)
  THEN IF Less(AddMs(timestampOfFirstDay, timestampOneday * 7),
               timestempOfOurDay)
       THEN WeekLoop(AddMs(timestampOfFirstDay, timestampOneday * 7),
                     timestampOfFirstDayNextYear, timestempOfOurDay,
                     countWeeks + 1)
       ELSE IF countWeeks = 33 THEN countWeeks + 1 ELSE countWeeks
  ELSE countWeeks

getWeekNumberByDate(d) ==
  LET year                    == getFullYear(d)
      timestempOfOurDay       == DateParse(d)
      fourthOfJunuary         == NewDate(year, 0, 4)
      timestampOfFirstDay     ==
        AddMs(DateParse(fourthOfJunuary),
              0 - timestampOneday * WeekOneShift(getDay(fourthOfJunuary)))
      fourthOfJunuaryNextYear == NewDate(year + 1, 0, 4)
      timestampOfFirstDayNextYear ==
        AddMs(DateParse(fourthOfJunuaryNextYear),
              0 - timestampOneday * WeekOneShift(getDay(fourthOfJunuaryNextYear)))
  IN  WeekLoop(timestampOfFirstDay, timestampOfFirstDayNextYear,
               timestempOfOurDay, 1)

-----------------------------------------------------------------------------
(* getNextFridayThe13th, lines 416-437                                     *)

\* the year at which the scan gives up
ScanLimitYear == 2200

\* the while loop of lines 424-435
RECURSIVE Friday13Loop(_, _, _)
Friday13Loop(yearIndex, monthIndex, d) ==
  IF yearIndex < ScanLimitYear
  THEN LET fridayDate == NewDate(yearIndex, monthIndex, 13)
       IN  IF getDay(fridayDate) = 5
           THEN fridayDate
           ELSE IF monthIndex # 11
                THEN Friday13Loop(yearIndex, monthIndex + 1, d)
                ELSE Friday13Loop(yearIndex + 1, 0, d)
  ELSE d

getNextFridayThe13th(d) ==
  LET monthIndex == IF getDate(d) = 13 THEN getMonth(d) + 1 ELSE getMonth(d)
  IN  Friday13Loop(getFullYear(d), monthIndex, d)

-----------------------------------------------------------------------------
(* getWorkSchedule, lines 485-534.  A string that the code splits into     *)
(* characters is a sequence of one-character strings.                      *)

\* the value of a decimal digit character
DigitValue(c) == CHOOSE n \in 0..9 : ToString(n) = c

\* lines 488-494 and 496-502: the day and month digits change places
SwapDayMonth(chars) ==
  [chars EXCEPT ![1] = chars[4], ![4] = chars[1],
                ![2] = chars[5], ![5] = chars[2]]

\* new Date('MM-DD-YYYY'): local midnight of that day
NewDateFromString(chars) ==
  LET month == DigitValue(chars[1]) * 10 + DigitValue(chars[2])
      day   == DigitValue(chars[4]) * 10 + DigitValue(chars[5])
      year  == DigitValue(chars[7]) * 1000 + DigitValue(chars[8]) * 100
                 + DigitValue(chars[9]) * 10 + DigitValue(chars[10])
  IN  NewDate(year, month - 1, day)

timestampStart == DateParse(NewDateFromString(SwapDayMonth(args.period.start)))

timestampEnd == DateParse(NewDateFromString(SwapDayMonth(args.period.end)))

\* the third character of period.end
dash == args.period.end[3]

\* lines 515-526: the string pushed for the time value i
ScheduleEntry(i) ==
  LET year  == getFullYear(i)
      m     == getMonth(i) + 1
      month == IF m < 10 THEN "0" \o ToString(m) ELSE ToString(m)
      d     == getDate(i)
      day   == IF d < 10 THEN "0" \o ToString(d) ELSE ToString(d)
  IN  day \o dash \o month \o dash \o ToString(year)

\* a variant that forgets the loop's own increment
OffSkip_full(countOffDays) == countOffDays * timestampOneday

\* line 529: what the else branch adds to index
OffSkip(countOffDays) == (countOffDays - 1) * timestampOneday

-----------------------------------------------------------------------------
(* The calls.  Every function is called on arguments drawn by Init; a call *)
(* is one step, except getWorkSchedule, whose loop runs one iteration per  *)
(* step.                                                                   *)

\* offsets of local time from UTC: UTC-5, UTC, UTC+9
TimeZones == {0 - 5 * MsPerHour, 0, 9 * MsPerHour}

\* times of day, in ms, given to the calls that take a Date
TimesOfDay == {0, 1, 12 * MsPerHour, 23 * MsPerHour, timestampOneday - 1}

\* values of the variables a call does not use
NoObject == /\ date = None
            /\ calls = 0

NoLoop == /\ index = None
          /\ countDays = 0
          /\ schedule = <<>>
          /\ cycleStart = None
          /\ lastBranch = None

\* a call of a function without side effects: one step from ready to done
Returns(fn, value) ==
  /\ pc = "ready"
  /\ args.fn = fn
  /\ ret' = value
  /\ pc' = "done"
  /\ UNCHANGED <<tz, args, date, calls, index, countDays, schedule,
                 cycleStart, lastBranch>>

(* getNextFriday on one Date object, called up to MaxCalls times *)

MaxCalls == 2

FridaySpanDays == 80

NextFridayDays ==
  LET first == DaysFromCivil(2023, 12, 20)
  IN  first..(first + FridaySpanDays)

InitNextFriday ==
  /\ pc = "ready"
  /\ tz \in TimeZones
  /\ date \in NextFridayDays \X TimesOfDay
  /\ args = [fn |-> "getNextFriday", orig |-> date, arg |-> date]
  /\ ret = None
  /\ calls = 0
  /\ NoLoop

CallGetNextFriday ==
  /\ args.fn = "getNextFriday"
  /\ calls < MaxCalls
  /\ LET r == getNextFriday(date)
     IN  /\ date' = r.date
         /\ ret' = r.ret
  /\ args' = [args EXCEPT !.arg = date]
  /\ calls' = calls + 1
  /\ pc' = "done"
  /\ UNCHANGED <<tz, index, countDays, schedule, cycleStart, lastBranch>>

SpecNextFriday == InitNextFriday /\ [][CallGetNextFriday]_vars

(* getCountDaysInMonth *)

FirstYear == 1896

LastYear == 2404

InitMonth ==
  /\ pc = "ready"
  /\ tz \in TimeZones
  /\ args \in [fn : {"getCountDaysInMonth"}, month : 1..12,
               year : FirstYear..LastYear]
  /\ ret = None
  /\ NoObject
  /\ NoLoop

CallGetCountDaysInMonth ==
  Returns("getCountDaysInMonth", getCountDaysInMonth(args.month, args.year))

SpecMonth == InitMonth /\ [][CallGetCountDaysInMonth]_vars

(* getCountDaysOnPeriod *)

MaxPeriodDays == 6

\* end - start, in ms: every quarter of a day from one day before the
\* start, and the millisecond before and after each
PeriodDeltas ==
  {q * (timestampOneday \div 4) + e :
     q \in (0 - 4)..(4 * MaxPeriodDays), e \in {0 - 1, 0, 1}}

InitCountDays ==
  /\ pc = "ready"
  /\ tz = 0
  /\ \E s \in {DaysFromCivil(2024, 2, 1)} \X {0, 500, 18 * MsPerHour},
        delta \in PeriodDeltas :
       args = [fn |-> "getCountDaysOnPeriod", dateStart |-> s,
               dateEnd |-> AddMs(s, delta)]
  /\ ret = None
  /\ NoObject
  /\ NoLoop

CallGetCountDaysOnPeriod ==
  Returns("getCountDaysOnPeriod",
          getCountDaysOnPeriod(args.dateStart, args.dateEnd))

SpecCountDays == InitCountDays /\ [][CallGetCountDaysOnPeriod]_vars

(* isDateInPeriod *)

\* the instants given as date, start and end
PeriodInstants ==
  {DaysFromCivil(2024, 2, 2), DaysFromCivil(2024, 2, 3)}
    \X {0, 100, 500, 999, 1000, 1001, timestampOneday - 1}

InitPeriod ==
  /\ pc = "ready"
  /\ tz = 0
  /\ \E d \in PeriodInstants, s \in PeriodInstants, e \in PeriodInstants :
       args = [fn |-> "isDateInPeriod", date |-> d,
               period |-> [start |-> s, end |-> e]]
  /\ ret = None
  /\ NoObject
  /\ NoLoop

CallIsDateInPeriod ==
  Returns("isDateInPeriod", isDateInPeriod(args.date, args.period))

SpecPeriod == InitPeriod /\ [][CallIsDateInPeriod]_vars

(* formatDate *)

FormatDays == {DaysFromCivil(2024, 2, 1), DaysFromCivil(2010, 12, 15)}

InitFormat ==
  /\ pc = "ready"
  /\ tz = 0
  /\ \E day \in FormatDays, h \in 0..23, m \in 0..59, s \in 0..59 :
       args = [fn |-> "formatDate",
               date |-> <<day, h * MsPerHour + m * MsPerMinute
                                 + s * MsPerSecond>>]
  /\ ret = None
  /\ NoObject
  /\ NoLoop

CallFormatDate == Returns("formatDate", formatDate(args.date))

SpecFormat == InitFormat /\ [][CallFormatDate]_vars

(* getWeekNumberByDate *)

WeekFirstYear == 2019

WeekLastYear == 2026

\* local midnight and local noon of every day of the years
InitWeek ==
  /\ pc = "ready"
  /\ tz \in TimeZones
  /\ \E day \in DaysFromCivil(WeekFirstYear, 1, 1)..DaysFromCivil(WeekLastYear, 12, 31),
        ms \in {0, 12 * MsPerHour} :
       args = [fn |-> "getWeekNumberByDate",
               date |-> AddMs(<<day, ms>>, 0 - tz)]
  /\ ret = None
  /\ NoObject
  /\ NoLoop

CallGetWeekNumberByDate ==
  Returns("getWeekNumberByDate", getWeekNumberByDate(args.date))

SpecWeek == InitWeek /\ [][CallGetWeekNumberByDate]_vars

(* getNextFridayThe13th *)

Friday13FirstYear == 2023

Friday13LastYear == 2024

\* local midnight and local noon of every day of the years, and of the
\* last year before the scan limit
InitFriday13 ==
  /\ pc = "ready"
  /\ tz \in TimeZones
  /\ \E day \in (DaysFromCivil(Friday13FirstYear, 1, 1)..DaysFromCivil(Friday13LastYear, 12, 31))
                \cup (DaysFromCivil(ScanLimitYear - 1, 1, 1)..DaysFromCivil(ScanLimitYear - 1, 12, 31)),
        ms \in {0, 12 * MsPerHour} :
       args = [fn |-> "getNextFridayThe13th",
               date |-> AddMs(<<day, ms>>, 0 - tz)]
  /\ ret = None
  /\ NoObject
  /\ NoLoop

CallGetNextFridayThe13th ==
  Returns("getNextFridayThe13th", getNextFridayThe13th(args.date))

SpecFriday13 == InitFriday13 /\ [][CallGetNextFridayThe13th]_vars

(* getWorkSchedule *)

MaxPeriodLength == 14

MaxWorkDays == 3

MaxOffDays == 3

\* the characters of a two-digit and of a four-digit number
TwoDigits(n) == <<ToString(n \div 10), ToString(n % 10)>>

FourDigits(n) == TwoDigits(n \div 100) \o TwoDigits(n % 100)

\* the 'DD-MM-YYYY' string of a day number, as characters
DateChars(day) ==
  LET c == CivilFromDays(day)
  IN  TwoDigits(c.day) \o <<"-">> \o TwoDigits(c.month) \o <<"-">>
        \o FourDigits(c.year)

ScheduleStarts ==
  {DaysFromCivil(2024, 1, 1), DaysFromCivil(2023, 12, 25),
   DaysFromCivil(2024, 2, 22)}

InitSchedule ==
  /\ pc = "ready"
  /\ tz \in TimeZones
  /\ \E s \in ScheduleStarts, len \in 0..MaxPeriodLength,
        w \in 0..MaxWorkDays, o \in 0..MaxOffDays :
       args = [fn |-> "getWorkSchedule",
               period |-> [start |-> DateChars(s), end |-> DateChars(s + len)],
               countWorkDays |-> w, countOffDays |-> o]
  /\ ret = None
  /\ NoObject
  /\ NoLoop

\* lines 486-510: the dates are parsed and the loop is entered
EnterSchedule ==
  /\ pc = "ready"
  /\ args.fn = "getWorkSchedule"
  /\ index' = timestampStart
  /\ countDays' = 0
  /\ schedule' = <<>>
  /\ cycleStart' = timestampStart
  /\ lastBranch' = "enter"
  /\ pc' = "loop"
  /\ UNCHANGED <<tz, args, ret, date, calls>>

\* lines 514-527 and 512: an iteration that emits a day
LoopWork ==
  /\ pc = "loop"
  /\ LessEq(index, timestampEnd)
  /\ countDays < args.countWorkDays
  /\ schedule' = Append(schedule, ScheduleEntry(index))
  /\ countDays' = countDays + 1
  /\ index' = AddMs(index, timestampOneday)
  /\ cycleStart' = IF lastBranch = "off" THEN index ELSE cycleStart
  /\ lastBranch' = "work"
  /\ UNCHANGED <<pc, tz, args, ret, date, calls>>

\* lines 528-531 and 512: the iteration that skips the days off
LoopOff ==
  /\ pc = "loop"
  /\ LessEq(index, timestampEnd)
  /\ ~(countDays < args.countWorkDays)
  /\ index' = AddMs(AddMs(index, OffSkip(args.countOffDays)), timestampOneday)
  /\ countDays' = 0
  /\ cycleStart' = IF lastBranch = "off" THEN index ELSE cycleStart
  /\ lastBranch' = "off"
  /\ UNCHANGED <<pc, tz, args, ret, date, calls, schedule>>

\* lines 511 and 533: the loop ends and the array is returned
ReturnSchedule ==
  /\ pc = "loop"
  /\ ~LessEq(index, timestampEnd)
  /\ ret' = schedule
  /\ pc' = "done"
  /\ UNCHANGED <<tz, args, date, calls, index, countDays, schedule,
                 cycleStart, lastBranch>>

NextSchedule == EnterSchedule \/ LoopWork \/ LoopOff \/ ReturnSchedule

SpecSchedule == InitSchedule /\ [][NextSchedule]_vars

\* the loop runs in one thread that is never suspended: an iteration that
\* can be taken is taken
FairSpecSchedule == SpecSchedule /\ WF_vars(NextSchedule)

(* all the calls together *)

Init ==
  \/ InitNextFriday
  \/ InitMonth
  \/ InitCountDays
  \/ InitPeriod
  \/ InitFormat
  \/ InitWeek
  \/ InitFriday13
  \/ InitSchedule

Next ==
  \/ CallGetNextFriday
  \/ CallGetCountDaysInMonth
  \/ CallGetCountDaysOnPeriod
  \/ CallIsDateInPeriod
  \/ CallFormatDate
  \/ CallGetWeekNumberByDate
  \/ CallGetNextFridayThe13th
  \/ EnterSchedule
  \/ LoopWork
  \/ LoopOff
  \/ ReturnSchedule

Spec == Init /\ [][Next]_vars

-----------------------------------------------------------------------------
(* The properties.                                                         *)

\* two decimal digits, as a string
Two(n) == ToString(n \div 10) \o ToString(n % 10)

\* the day number written by a 'DD-MM-YYYY' string
DayOfChars(chars) ==
  DaysFromCivil(DigitValue(chars[7]) * 1000 + DigitValue(chars[8]) * 100
                  + DigitValue(chars[9]) * 10 + DigitValue(chars[10]),
                DigitValue(chars[4]) * 10 + DigitValue(chars[5]),
                DigitValue(chars[1]) * 10 + DigitValue(chars[2]))

\* the 'DD-MM-YYYY' string of a day number
DayString(day) ==
  LET c == CivilFromDays(day)
  IN  Two(c.day) \o "-" \o Two(c.month) \o "-" \o ToString(c.year)

\* the offsets d in 0..n with d mod (w + o) < w, in increasing order
WorkOffsets(n, w, o) ==
  SelectSeq([i \in 1..(n + 1) |-> i - 1], LAMBDA d : d % (w + o) < w)

C2_CountIsFloorPlusOne ==
  (pc = "done" /\ args.fn = "getCountDaysOnPeriod") =>
    LET diff == Diff(args.dateStart, args.dateEnd)
    IN  /\ ret.num = 0
        /\ ret.int = IF diff <= 86400000 THEN 2 ELSE (diff \div 86400000) + 1

\* a local day that is the 13th of its month and a Friday
IsFridayThe13th(day) == CivilFromDays(day).day = 13 /\ WeekDay(day) = 5

\* C3: getNextFridayThe13th returns the earliest Friday the 13th strictly
\* later than the input date (not the input day, and no earlier day).
C3_NextFridayThe13th ==
  (pc = "done" /\ args.fn = "getNextFridayThe13th") =>
    LET from == Local(args.date)[1]
        to   == Local(ret)[1]
    IN  /\ IsFridayThe13th(to)
        /\ from < to
        /\ \A day \in (from + 1)..(to - 1) : ~IsFridayThe13th(day)

\* the ISO-8601 week number of a day: the week, counted from 1, of the
\* Thursday of the day's Monday-to-Sunday week within that Thursday's year
IsoWeek(day) ==
  LET thursday == day - ((WeekDay(day) + 6) % 7) + 3
      year     == CivilFromDays(thursday).year
  IN  ((thursday - DaysFromCivil(year, 1, 1)) \div 7) + 1

\* C4: getWeekNumberByDate returns the ISO-8601 week number of the date.
C4_IsoWeekNumber ==
  (pc = "done" /\ args.fn = "getWeekNumberByDate") =>
    ret = IsoWeek(Local(args.date)[1])

C6_InPeriodIffBetween ==
  (pc = "done" /\ args.fn = "isDateInPeriod") =>
    (ret <=> (/\ LessEq(args.period.start, args.date)
              /\ LessEq(args.date, args.period.end)))

\* C7: formatDate prints the UTC hour h as h up to 12 and as h - 12 from
\* 13 on, unpadded, then minutes and seconds as two digits each, then AM
\* exactly when h < 12 and PM otherwise.
C7_TimeOfDayFormat ==
  (pc = "done" /\ args.fn = "formatDate") =>
    LET c == CivilFromDays(args.date[1])
        h == args.date[2] \div 3600000
        m == (args.date[2] \div 60000) % 60
        s == (args.date[2] \div 1000) % 60
    IN  ret = ToString(c.month) \o "/" \o ToString(c.day) \o "/"
                \o ToString(c.year) \o ", "
                \o ToString(IF h <= 12 THEN h ELSE h - 12) \o ":"
                \o Two(m) \o ":" \o Two(s)
                \o (IF h < 12 THEN " AM" ELSE " PM")

\* noon with one-digit minutes and seconds
C7_Witness ==
  /\ pc = "done"
  /\ args.fn = "formatDate"
  /\ args.date = <<DaysFromCivil(2024, 2, 1), 12 * 3600000 + 5 * 60000 + 9000>>
  /\ ret = "2/1/2024, 12:05:09 PM"

\* C8: getCountDaysInMonth returns the calendar length of the month: 31,
\* 30, and for February 29 exactly in the years divisible by 4 and (not
\* by 100 or by 400), the years of which isLeapYear is true.
C8_DaysInMonth ==
  (pc = "done" /\ args.fn = "getCountDaysInMonth") =>
    LET m    == args.month
        y    == args.year
        leap == y % 4 = 0 /\ (y % 100 # 0 \/ y % 400 = 0)
    IN  /\ ret \in {28, 29, 30, 31}
        /\ m \in {1, 3, 5, 7, 8, 10, 12} => ret = 31
        /\ m \in {4, 6, 9, 11} => ret = 30
        /\ m = 2 => ret = IF leap THEN 29 ELSE 28
        /\ leap <=> isLeapYear(NewDate(y, 5, 15))
        /\ ret = DaysFromCivil(IF m = 12 THEN y + 1 ELSE y,
                               IF m = 12 THEN 1 ELSE m + 1, 1)
                   - DaysFromCivil(y, m, 1)

\* February of a year divisible by 100 and not by 400
C8_Witness ==
  /\ pc = "done"
  /\ args.fn = "getCountDaysInMonth"
  /\ args.month = 2
  /\ args.year = 1900
  /\ ret = 28

\* C9: the loop of getWorkSchedule advances its date over every work/off
\* cycle, also with countWorkDays = 0 and countOffDays = 0: after the
\* iteration that ends a cycle, index is later than where the cycle began.
C9_EveryCycleAdvances ==
  (pc = "loop" /\ lastBranch = "off") => Less(cycleStart, index)

\* the same claim as a liveness property of FairSpecSchedule: every call of
\* getWorkSchedule returns
ScheduleReturns == <>(pc = "done")

\* the first Friday strictly after the local day of t, at t's time of day
FirstFridayAfter(t) ==
  AddMs(t, 86400000 * (CHOOSE k \in 1..7 : WeekDay(Local(t)[1] + k) = 5))

\* C10: getNextFriday changes its argument: after the call the argument
\* holds the returned instant and no longer the one it held, its time of
\* day is unchanged, and every further call on it adds one more week.
C10_ArgumentIsMutated ==
  (pc = "done" /\ args.fn = "getNextFriday") =>
    /\ date = ret
    /\ date # args.arg
    /\ date[2] = args.orig[2]
    /\ date = AddMs(FirstFridayAfter(args.orig), 7 * 86400000 * (calls - 1))

\* two calls on the same object
C10_Witness ==
  /\ pc = "done"
  /\ args.fn = "getNextFriday"
  /\ calls = 2
  /\ date = ret
  /\ date = AddMs(args.orig, 14 * 86400000)

=============================================================================
